---------------------------- MODULE Spec2Model ----------------------------
(***************************************************************************)
(* Programs of aap5869/RIT, each modelled as a state machine:               *)
(*   src/numerical/integrate/monte_carlo_average.py       (Spec)           *)
(*   src/numerical/integrate/monte_carlo_hit_or_miss.py   (Spec)           *)
(*   src/misc/war.py                                      (SpecWar)        *)
(*   src/bb_temperature.py                                (SpecBB)         *)
(*   src/computing_and_control/ipcv/histogram_brute_force.py,              *)
(*   src/computing_and_control/ipcv/histogram_numpy.py                     *)
(*                                                        (SpecHistogram)  *)
(*                                                                         *)
(* One call of one program is modelled per specification.  The call's      *)
(* arguments are chosen in the initial state and never change; the locals  *)
(* of the call are the remaining variables, and the variables of the       *)
(* programs that are not running keep their idle values.  Every            *)
(* random.uniform draw is a nondeterministic choice from an integer grid   *)
(* over the drawn interval; every random.shuffle is a choice among         *)
(* orderings of the shuffled cards.                                        *)
(*                                                                         *)
(* Arithmetic is exact: sample values are integers, quotients are reduced  *)
(* fractions, and a value c*sqrt(r) is kept as the pair (c, r) and         *)
(* compared through its signed square.  Rounding of binary64 is not        *)
(* modelled.                                                               *)
(***************************************************************************)
EXTENDS Integers, Sequences, FiniteSets, TLC

(***************************************************************************)
(* Bounds of the model.                                                    *)
(***************************************************************************)
\* maximumIterations ranges over 0..MaxIterations
MaxIterations == 3
\* numberSamples ranges over 0..MaxSamples
MaxSamples == 2

(***************************************************************************)
(* Exact rational arithmetic (Python's float operators, without rounding). *)
(***************************************************************************)
Abs(n) == IF n < 0 THEN -n ELSE n

RECURSIVE GCD(_, _)
GCD(a, b) == IF b = 0 THEN a ELSE GCD(b, a % b)

\* n/d as a reduced fraction with a positive denominator (d # 0)
Rat(n, d) ==
    LET g == GCD(Abs(n), Abs(d))
        s == IF d < 0 THEN -1 ELSE 1
    IN  [num |-> (s * n) \div g, den |-> (s * d) \div g]

IntRat(n) == [num |-> n, den |-> 1]

RatSub(a, b) == Rat(a.num * b.den - b.num * a.den, a.den * b.den)
RatMul(a, b) == Rat(a.num * b.num, a.den * b.den)
\* a / b, for b # 0
RatDiv(a, b) == Rat(a.num * b.den, a.den * b.num)
RatLT(a, b)  == a.num * b.den < b.num * a.den
RatGE(a, b)  == ~RatLT(a, b)
RatSign(a)   == IF a.num > 0 THEN 1 ELSE IF a.num < 0 THEN -1 ELSE 0

\* A local that has not been assigned yet (reading it raises UnboundLocalError)
Unbound == [num |-> 0, den |-> 0]
IsBound(v) == v.den # 0

\* float('inf'), and coef * sqrt(rad): the values epsilon takes
Infinity == [inf |-> TRUE, coef |-> IntRat(0), rad |-> IntRat(0)]
Surd(c, r) == [inf |-> FALSE, coef |-> c, rad |-> r]

\* sign(x) * x^2: strictly increasing in x, so it decides every comparison
SignedSquareOfRat(a) == RatMul(IntRat(RatSign(a)), RatMul(a, a))
SignedSquareOfSurd(e) ==
    RatMul(IntRat(RatSign(e.coef)), RatMul(RatMul(e.coef, e.coef), e.rad))

\* epsilon >= acceptableError
GreaterEqual(e, acc) ==
    e.inf \/ RatGE(SignedSquareOfSurd(e), SignedSquareOfRat(acc))

RECURSIVE SumSeq(_)
SumSeq(s) == IF s = <<>> THEN 0 ELSE Head(s) + SumSeq(Tail(s))

RECURSIVE SumSquares(_)
SumSquares(s) == IF s = <<>> THEN 0 ELSE Head(s) * Head(s) + SumSquares(Tail(s))

RECURSIVE MaxSeq(_)
MaxSeq(s) ==
    IF Len(s) = 1 THEN Head(s)
    ELSE LET m == MaxSeq(Tail(s)) IN IF Head(s) > m THEN Head(s) ELSE m

RECURSIVE MinSeq(_)
MinSeq(s) ==
    IF Len(s) = 1 THEN Head(s)
    ELSE LET m == MinSeq(Tail(s)) IN IF Head(s) < m THEN Head(s) ELSE m

(***************************************************************************)
(* The arguments a call is made with.                                      *)
(***************************************************************************)
\* Integrands defined with def or lambda; integer-valued on the grid
FunctionNames == {"identity", "one"}

\* function(x)
Call(name, x) == IF name = "identity" THEN x ELSE 1

\* What the caller may pass as the "function" attribute
Arg(kind, name, val) == [kind |-> kind, name |-> name, val |-> val]

\* def/lambda functions, built-in functions (math.sqrt) and objects with __call__
CallableArgs ==
    {Arg("function", n, <<>>) : n \in FunctionNames}
        \cup {Arg("builtin", "identity", <<>>), Arg("callable_object", "identity", <<>>)}

\* An integer and a dictionary
OtherArgs == {Arg("int", "", <<>>), Arg("dict", "", <<>>)}

\* Lists and tuples of y-values (monte_carlo_average)
YValues == {<<>>, <<3>>, <<1, 2>>, <<0, 1, 2, 3, 4>>}
AverageSequenceArgs ==
    {Arg("list", "", v) : v \in YValues} \cup {Arg("tuple", "", <<1, 2>>)}

\* 2 x M tables: row 0 the x-values, row 1 the y-values (monte_carlo_hit_or_miss)
Tables == { << <<0, 1>>, <<1, 2>> >>, << <<0, 2>>, <<2, 1>> >>, << <<1, 3, 4>>, <<0, 1, 1>> >> }
HitOrMissSequenceArgs ==
    {Arg("list", "", t) : t \in Tables} \cup {Arg("tuple", "", << <<0, 1>>, <<1, 2>> >>)}

\* <<lowerLimit, upperLimit>>
CallableLimits == {<<0, 1>>, <<1, 2>>}
SequenceLimits == {<<0, 4>>, <<0, 2>>}

\* acceptableError
Errors == {IntRat(0), Rat(3, 10), IntRat(1)}

(***************************************************************************)
(* State: the arguments of the call, then its locals.                      *)
(***************************************************************************)
VARIABLES
    estimator,          \* "average" or "hit_or_miss": the function called
    function,           \* the "function" attribute
    lowerLimit,
    upperLimit,
    acceptableError,
    maximumIterations,
    numberSamples,      \* monte_carlo_hit_or_miss only
    pc,                 \* where the call is, or how it ended
    fSum,
    fSquaredSum,
    iterations,
    epsilon,
    area,
    ratio,
    maxY,
    hits,
    randomX,
    randomY,
    i,                  \* table mode: index of the point being sampled
    j,                  \* table mode: index of the sample of that point
    returned,           \* the value the call returned
    draws,              \* number of random.uniform calls made
    evals,              \* number of function(...) calls made
    \* src/misc/war.py
    player1Hand,
    player2Hand,
    winningDeck,
    winner,
    numBattles,
    numWars,
    warHistogram,
    warSequence,
    topBattles,         \* number of passes of the battle loop of play
    ties,               \* number of battles of play that started a war sequence
    warRounds,          \* number of passes of the while loop of begin_war
    \* src/bb_temperature.py
    wavelength,
    radiance,
    bbEpsilon,          \* the epsilon attribute of bb_temperature
    low_temp,
    high_temp,
    temperature,
    \* src/computing_and_control/ipcv/histogram_brute_force.py, histogram_numpy.py
    image,
    bitDepth,
    bruteH,             \* h, pdf and cdf of histogram_brute_force
    brutePdf,
    bruteCdf,
    plane,              \* brute force: the plane the loops are in
    pixel,              \* brute force: the pixels of that plane counted so far
    bin,                \* brute force: the elements of cdf[plane] filled so far
    numpyH,             \* h, pdf and cdf of histogram_numpy
    numpyPdf,
    numpyCdf

args == <<estimator, function, lowerLimit, upperLimit, acceptableError,
          maximumIterations, numberSamples>>
averageLocals == <<fSum, fSquaredSum>>
hitOrMissLocals == <<ratio, maxY, hits, randomX, randomY, i, j>>
monteCarloVars == <<args, averageLocals, hitOrMissLocals, iterations, epsilon,
                    area, returned, draws, evals>>
warVars == <<player1Hand, player2Hand, winningDeck, winner, numBattles, numWars,
             warHistogram, warSequence, topBattles, ties, warRounds>>
bbVars == <<wavelength, radiance, bbEpsilon, low_temp, high_temp, temperature>>
histogramVars == <<image, bitDepth, bruteH, brutePdf, bruteCdf, plane, pixel, bin,
                   numpyH, numpyPdf, numpyCdf>>
\* The state of the programs other than the Monte Carlo estimators
otherPrograms == <<warVars, bbVars, histogramVars>>
vars == <<pc, monteCarloVars, otherPrograms>>

\* The ways a call ends
Raised == {"TypeError", "RuntimeError", "ZeroDivisionError", "UnboundLocalError"}
Terminal == Raised \cup {"returned"}

\* No game of war is played
NotPlayed ==
    /\ player1Hand = <<>>
    /\ player2Hand = <<>>
    /\ winningDeck = <<>>
    /\ winner = 0
    /\ numBattles = 0
    /\ numWars = 0
    /\ warHistogram = <<>>
    /\ warSequence = 0
    /\ topBattles = 0
    /\ ties = 0
    /\ warRounds = 0

\* No temperature is searched
NotSearched ==
    /\ wavelength = 0
    /\ radiance = 0
    /\ bbEpsilon = 0
    /\ low_temp = 0
    /\ high_temp = 0
    /\ temperature = 0

\* No histogram is computed
NoImage ==
    /\ image = <<>>
    /\ bitDepth = 0
    /\ bruteH = <<>>
    /\ brutePdf = <<>>
    /\ bruteCdf = <<>>
    /\ plane = 0
    /\ pixel = 0
    /\ bin = 0
    /\ numpyH = <<>>
    /\ numpyPdf = <<>>
    /\ numpyCdf = <<>>

\* No estimator is called
NotCalled ==
    /\ estimator = "none"
    /\ function = [kind |-> "none", name |-> "", val |-> <<>>]
    /\ lowerLimit = 0
    /\ upperLimit = 0
    /\ acceptableError = [num |-> 0, den |-> 1]
    /\ maximumIterations = 0
    /\ numberSamples = 0
    /\ fSum = 0
    /\ fSquaredSum = 0
    /\ iterations = 0
    /\ epsilon = [inf |-> TRUE, coef |-> [num |-> 0, den |-> 1],
                                rad |-> [num |-> 0, den |-> 1]]
    /\ area = [num |-> 0, den |-> 0]
    /\ ratio = [num |-> 0, den |-> 0]
    /\ maxY = 0
    /\ hits = 0
    /\ randomX = <<>>
    /\ randomY = <<>>
    /\ i = 0
    /\ j = 0
    /\ returned = [num |-> 0, den |-> 0]
    /\ draws = 0
    /\ evals = 0

Init ==
    /\ NotPlayed
    /\ NotSearched
    /\ NoImage
    /\ estimator \in {"average", "hit_or_miss"}
    /\ function \in CallableArgs \cup OtherArgs
            \cup (IF estimator = "average" THEN AverageSequenceArgs
                                           ELSE HitOrMissSequenceArgs)
    /\ \E lim \in (IF function.kind \in {"list", "tuple"} THEN SequenceLimits
                                                          ELSE CallableLimits) :
            lowerLimit = lim[1] /\ upperLimit = lim[2]
    /\ acceptableError \in Errors
    /\ maximumIterations \in 0..MaxIterations
    /\ numberSamples \in (IF estimator = "average" THEN {0} ELSE 0..MaxSamples)
    /\ pc = "call"
    /\ fSum = 0
    /\ fSquaredSum = 0
    /\ iterations = 0
    /\ epsilon = Infinity
    /\ area = Unbound
    /\ ratio = Unbound
    /\ maxY = 0
    /\ hits = 0
    /\ randomX = <<>>
    /\ randomY = <<>>
    /\ i = 0
    /\ j = 0
    /\ returned = Unbound
    /\ draws = 0
    /\ evals = 0

(***************************************************************************)
(* Pieces of the code shared by the actions.                               *)
(***************************************************************************)
\* isinstance(function, list) or isinstance(function, tuple)
IsSequence(fn) == fn.kind \in {"list", "tuple"}

\* Mutant of IsFunction: the type check accepts whatever is not a sequence
IsFunctionAnything(fn) == TRUE

\* inspect.isfunction(function): true of def and lambda functions only
IsFunction(fn) == fn.kind = "function"

\* The values random.uniform(a, b) returns, on the integer grid
Uniform(a, b) == IF a <= b THEN a..b ELSE b..a

\* Mutant of LimitReached: the limit is tested with > instead of ==
LimitReachedGreater(it, max) == it > max

\* Mutant of LimitReached: the limit is tested one iteration late
LimitReachedLate(it, max) == it = max + 1

\* iterations == maximumIterations
LimitReached(it, max) == it = max

\* (upperLimit - lowerLimit) * sqrt((fSquaredBar - fBar**2) / n)
AverageEpsilon(width, fSquaredBar, fBar, n) ==
    Surd(IntRat(width),
         RatDiv(RatSub(fSquaredBar, RatMul(fBar, fBar)), IntRat(n)))

\* Mutant of AverageArea: the width of the interval is left out
AverageAreaNoWidth(width, fBar) == fBar

\* (upperLimit - lowerLimit) * fBar
AverageArea(width, fBar) == RatMul(IntRat(width), fBar)

\* Mutant of AverageContinue: epsilon > acceptableError instead of >=
AverageContinueStrict(eps, acc, it) ==
    \/ eps.inf
    \/ RatLT(SignedSquareOfRat(acc), SignedSquareOfSurd(eps))
    \/ it <= 1

\* Mutant of AverageContinue: no iteration is forced once epsilon is finite
AverageContinueNoWarmup(eps, acc, it) == GreaterEqual(eps, acc)

\* Mutant of AverageContinue: only one iteration is forced
AverageContinueOnce(eps, acc, it) == GreaterEqual(eps, acc) \/ it <= 0

\* while epsilon >= acceptableError or iterations <= 1
AverageContinue(eps, acc, it) == GreaterEqual(eps, acc) \/ it <= 1

(***************************************************************************)
(* monte_carlo_average                                                     *)
(***************************************************************************)
\* The function attribute is a def/lambda function: set up the loop
AverageFunction ==
    /\ pc = "call" /\ estimator = "average"
    /\ ~IsSequence(function) /\ IsFunction(function)
    /\ pc' = "loop"
    /\ fSum' = 0 /\ fSquaredSum' = 0 /\ iterations' = 0 /\ epsilon' = Infinity
    /\ UNCHANGED <<otherPrograms, args, area, hitOrMissLocals, returned, draws, evals>>

\* The function attribute is a list or tuple of at least one y-value
AverageSequence ==
    /\ pc = "call" /\ estimator = "average"
    /\ IsSequence(function)
    /\ Len(function.val) # 0
    /\ LET numElements == Len(function.val)
           fBar == Rat(SumSeq(function.val), numElements)
           fSquaredBar == Rat(SumSquares(function.val), numElements)
       IN  /\ epsilon' = AverageEpsilon(upperLimit - lowerLimit, fSquaredBar,
                                        fBar, numElements)
           /\ area' = AverageArea(upperLimit - lowerLimit, fBar)
    /\ returned' = area'
    /\ pc' = "returned"
    /\ UNCHANGED <<otherPrograms, args, averageLocals, iterations, hitOrMissLocals, draws, evals>>

\* sum(function)/numElements with an empty list or tuple
AverageEmptySequence ==
    /\ pc = "call" /\ estimator = "average"
    /\ IsSequence(function)
    /\ Len(function.val) = 0
    /\ pc' = "ZeroDivisionError"
    /\ UNCHANGED <<otherPrograms, args, averageLocals, iterations, epsilon, area,
                   hitOrMissLocals, returned, draws, evals>>

\* Neither a list, a tuple nor a function
AverageTypeError ==
    /\ pc = "call" /\ estimator = "average"
    /\ ~IsSequence(function) /\ ~IsFunction(function)
    /\ pc' = "TypeError"
    /\ UNCHANGED <<otherPrograms, args, averageLocals, iterations, epsilon, area,
                   hitOrMissLocals, returned, draws, evals>>

\* One pass of the while loop that evaluates the function
AverageIterate ==
    /\ pc = "loop" /\ estimator = "average"
    /\ AverageContinue(epsilon, acceptableError, iterations)
    /\ \E randomNumber \in Uniform(lowerLimit, upperLimit) :
         /\ draws' = draws + 1
         /\ ~LimitReached(iterations, maximumIterations)
         /\ iterations' = iterations + 1
         /\ fSum' = fSum + Call(function.name, randomNumber)
         /\ fSquaredSum' = fSquaredSum
                + Call(function.name, randomNumber) * Call(function.name, randomNumber)
         /\ evals' = evals + 2
         /\ LET fBar == Rat(fSum', iterations')
                fSquaredBar == Rat(fSquaredSum', iterations')
            IN  /\ epsilon' = AverageEpsilon(upperLimit - lowerLimit,
                                             fSquaredBar, fBar, iterations')
                /\ area' = AverageArea(upperLimit - lowerLimit, fBar)
    /\ UNCHANGED <<otherPrograms, args, pc, hitOrMissLocals, returned>>

\* The pass of the while loop that finds iterations == maximumIterations
AverageLimit ==
    /\ pc = "loop" /\ estimator = "average"
    /\ AverageContinue(epsilon, acceptableError, iterations)
    /\ draws' = draws + 1
    /\ LimitReached(iterations, maximumIterations)
    /\ pc' = "RuntimeError"
    /\ UNCHANGED <<otherPrograms, args, averageLocals, iterations, epsilon, area,
                   hitOrMissLocals, returned, evals>>

\* The loop condition is false: return area
AverageReturn ==
    /\ pc = "loop" /\ estimator = "average"
    /\ ~AverageContinue(epsilon, acceptableError, iterations)
    /\ returned' = area
    /\ pc' = "returned"
    /\ UNCHANGED <<otherPrograms, args, averageLocals, iterations, epsilon, area,
                   hitOrMissLocals, draws, evals>>

(***************************************************************************)
(* monte_carlo_hit_or_miss                                                 *)
(***************************************************************************)
\* while epsilon >= acceptableError
HitOrMissContinue(eps, acc) == GreaterEqual(eps, acc)

\* Mutant of NewMaxY: maxY follows the last sample instead of the maximum
NewMaxYLast(m, fx) == fx

\* if function(x) > maxY: maxY = function(x)
NewMaxY(m, fx) == IF fx > m THEN fx ELSE m

\* Mutant of NewHits: a sample on the curve is not a hit
NewHitsStrict(h, y, fx) == IF y < fx THEN h + 1 ELSE h

\* if y <= function(x): hits += 1
NewHits(h, y, fx) == IF y <= fx THEN h + 1 ELSE h

\* Mutant of HitRatio: the sample about to be drawn is counted already
HitRatioOffByOne(h, n) == Rat(h, n + 1)

\* hits/len(randomX), hits/len(randomY)
HitRatio(h, n) == Rat(h, n)

\* (2.0/3.0) * width * maxY * sqrt((ratio*(1 - ratio)) / n)
HitOrMissEpsilon(width, m, r, n) ==
    Surd(RatMul(Rat(2, 3), IntRat(width * m)),
         RatDiv(RatMul(r, RatSub(IntRat(1), r)), IntRat(n)))

\* ratio * width * maxY
HitOrMissArea(r, width, m) == RatMul(r, IntRat(width * m))

\* Mutant of WarmupDone: the warm-up loops stop one pass early
WarmupDoneEarly(n, samples) == n >= samples - 1

\* for x in range(numberSamples): the pass that appended element n was the last
WarmupDone(n, samples) == n = samples

\* The sample the table mode tests against function[1][i]: randomY[j]
TestedSample(ys, jj) == ys[jj + 1]

\* The function attribute is a def/lambda function: set up the warm-up
HitOrMissFunction ==
    /\ pc = "call" /\ estimator = "hit_or_miss"
    /\ ~IsSequence(function) /\ IsFunction(function)
    /\ maxY' = 0 /\ hits' = 0 /\ iterations' = 0 /\ epsilon' = Infinity
    /\ randomX' = <<>> /\ randomY' = <<>>
    /\ pc' = IF numberSamples = 0 THEN "loop" ELSE "warmupX"
    /\ UNCHANGED <<otherPrograms, args, averageLocals, area, ratio, i, j, returned, draws, evals>>

\* Neither a list, a tuple nor a function
HitOrMissTypeError ==
    /\ pc = "call" /\ estimator = "hit_or_miss"
    /\ ~IsSequence(function) /\ ~IsFunction(function)
    /\ pc' = "TypeError"
    /\ UNCHANGED <<otherPrograms, args, averageLocals, iterations, epsilon, area,
                   hitOrMissLocals, returned, draws, evals>>

\* One pass of the first warm-up loop: draw an x, track the maximum
HitOrMissWarmupX ==
    /\ pc = "warmupX"
    /\ \E x \in Uniform(lowerLimit, upperLimit) :
         /\ randomX' = Append(randomX, x)
         /\ maxY' = NewMaxY(maxY, Call(function.name, x))
         /\ evals' = evals + (IF Call(function.name, x) > maxY THEN 2 ELSE 1)
    /\ draws' = draws + 1
    /\ pc' = IF WarmupDone(Len(randomX'), numberSamples) THEN "warmupY" ELSE "warmupX"
    /\ UNCHANGED <<otherPrograms, args, averageLocals, iterations, epsilon, area, ratio, hits,
                   randomY, i, j, returned>>

\* One pass of the second warm-up loop: draw a y for the x of the same index
HitOrMissWarmupY ==
    /\ pc = "warmupY"
    /\ \E y \in Uniform(0, maxY) :
         /\ randomY' = Append(randomY, y)
         /\ hits' = NewHits(hits, y, Call(function.name, randomX[Len(randomY) + 1]))
    /\ draws' = draws + 1
    /\ evals' = evals + 1
    /\ pc' = IF WarmupDone(Len(randomY'), numberSamples) THEN "loop" ELSE "warmupY"
    /\ UNCHANGED <<otherPrograms, args, averageLocals, iterations, epsilon, area, ratio, maxY,
                   randomX, i, j, returned>>

\* One pass of the while loop that draws a new (x, y)
HitOrMissIterate ==
    /\ pc = "loop" /\ estimator = "hit_or_miss"
    /\ HitOrMissContinue(epsilon, acceptableError)
    /\ ~LimitReached(iterations, maximumIterations)
    /\ iterations' = iterations + 1
    /\ Len(randomX) # 0
    /\ ratio' = HitRatio(hits, Len(randomX))
    /\ epsilon' = HitOrMissEpsilon(upperLimit - lowerLimit, maxY, ratio', Len(randomX))
    /\ area' = HitOrMissArea(ratio', upperLimit - lowerLimit, maxY)
    /\ \E x \in Uniform(lowerLimit, upperLimit) :
         /\ randomX' = Append(randomX, x)
         /\ maxY' = NewMaxY(maxY, Call(function.name, x))
         /\ evals' = evals + (IF Call(function.name, x) > maxY THEN 3 ELSE 2)
         /\ \E y \in Uniform(0, maxY') :
              /\ randomY' = Append(randomY, y)
              /\ hits' = NewHits(hits, y, Call(function.name, x))
    /\ draws' = draws + 2
    /\ UNCHANGED <<otherPrograms, args, averageLocals, pc, i, j, returned>>

\* hits/len(randomX) with no sample (numberSamples = 0)
HitOrMissZeroDivision ==
    /\ pc = "loop" /\ estimator = "hit_or_miss"
    /\ HitOrMissContinue(epsilon, acceptableError)
    /\ ~LimitReached(iterations, maximumIterations)
    /\ iterations' = iterations + 1
    /\ Len(randomX) = 0
    /\ pc' = "ZeroDivisionError"
    /\ UNCHANGED <<otherPrograms, args, averageLocals, epsilon, area, hitOrMissLocals,
                   returned, draws, evals>>

\* The pass of the while loop that finds iterations == maximumIterations
HitOrMissLimit ==
    /\ pc = "loop" /\ estimator = "hit_or_miss"
    /\ HitOrMissContinue(epsilon, acceptableError)
    /\ LimitReached(iterations, maximumIterations)
    /\ pc' = "RuntimeError"
    /\ UNCHANGED <<otherPrograms, args, averageLocals, iterations, epsilon, area,
                   hitOrMissLocals, returned, draws, evals>>

\* The loop condition is false: return area
HitOrMissReturn ==
    /\ pc = "loop" /\ estimator = "hit_or_miss"
    /\ ~HitOrMissContinue(epsilon, acceptableError)
    /\ returned' = area
    /\ pc' = "returned"
    /\ UNCHANGED <<otherPrograms, args, averageLocals, iterations, epsilon, area,
                   hitOrMissLocals, draws, evals>>

\* The function attribute is a list or tuple: a 2 x M table
HitOrMissSequence ==
    /\ pc = "call" /\ estimator = "hit_or_miss"
    /\ IsSequence(function)
    /\ hits' = 0 /\ randomY' = <<>>
    /\ maxY' = MaxSeq(function.val[2])
    /\ i' = 0 /\ j' = 0
    /\ pc' = IF numberSamples = 0 THEN "tableDone" ELSE "table"
    /\ UNCHANGED <<otherPrograms, args, averageLocals, iterations, epsilon, area, ratio,
                   randomX, returned, draws, evals>>

\* One pass of the inner loop of the table mode: sample j of point i
HitOrMissTableSample ==
    /\ pc = "table"
    /\ \E y \in Uniform(0, maxY) :
         /\ randomY' = Append(randomY, y)
         /\ IF TestedSample(randomY', j) <= function.val[2][i + 1]
            THEN /\ hits' = hits + 1
                 /\ ratio' = HitRatio(hits', Len(randomY'))
                 /\ area' = HitOrMissArea(ratio',
                               MaxSeq(function.val[1]) - MinSeq(function.val[1]), maxY)
            ELSE UNCHANGED <<hits, ratio, area>>
    /\ draws' = draws + 1
    /\ IF j + 1 < numberSamples
       THEN /\ j' = j + 1 /\ i' = i /\ pc' = "table"
       ELSE /\ j' = 0 /\ i' = i + 1
            /\ pc' = IF i + 1 < Len(function.val[2]) THEN "table" ELSE "tableDone"
    /\ UNCHANGED <<otherPrograms, args, averageLocals, iterations, epsilon, maxY, randomX,
                   returned, evals>>

\* After the loops: epsilon from the last ratio, then return area
HitOrMissTableReturn ==
    /\ pc = "tableDone"
    /\ IsBound(ratio)
    /\ epsilon' = HitOrMissEpsilon(MaxSeq(function.val[1]) - MinSeq(function.val[1]),
                                   maxY, ratio, Len(randomY))
    /\ returned' = area
    /\ pc' = "returned"
    /\ UNCHANGED <<otherPrograms, args, averageLocals, iterations, area, hitOrMissLocals,
                   draws, evals>>

\* After the loops, with no hit counted: ratio was never assigned
HitOrMissTableUnbound ==
    /\ pc = "tableDone"
    /\ ~IsBound(ratio)
    /\ pc' = "UnboundLocalError"
    /\ UNCHANGED <<otherPrograms, args, averageLocals, iterations, epsilon, area,
                   hitOrMissLocals, returned, draws, evals>>

(***************************************************************************)
(* The specification.                                                      *)
(***************************************************************************)
Next ==
    \/ AverageFunction
    \/ AverageSequence
    \/ AverageEmptySequence
    \/ AverageTypeError
    \/ AverageIterate
    \/ AverageLimit
    \/ AverageReturn
    \/ HitOrMissFunction
    \/ HitOrMissSequence
    \/ HitOrMissTypeError
    \/ HitOrMissWarmupX
    \/ HitOrMissWarmupY
    \/ HitOrMissIterate
    \/ HitOrMissZeroDivision
    \/ HitOrMissLimit
    \/ HitOrMissReturn
    \/ HitOrMissTableSample
    \/ HitOrMissTableReturn
    \/ HitOrMissTableUnbound

Spec == Init /\ [][Next]_vars

(***************************************************************************)
(* Properties.                                                             *)
(***************************************************************************)
\* The call was made with a def/lambda function (callable mode)
CallableMode == function.kind = "function"
Width == upperLimit - lowerLimit
IsPrefix(s, t) == Len(s) <= Len(t) /\ SubSeq(t, 1, Len(s)) = s

\* C1: in callable mode of both estimators, a call that returns does so with
\* the epsilon of the last executed iteration strictly below acceptableError,
\* and returns the area computed in that same iteration (from the same
\* statistics as that epsilon).
C1_ReturnBelowError ==
    (pc = "returned" /\ CallableMode) =>
        /\ ~epsilon.inf
        /\ RatLT(SignedSquareOfSurd(epsilon), SignedSquareOfRat(acceptableError))
        /\ returned = area
        /\ iterations >= 1
        /\ IF estimator = "average"
           THEN /\ area = RatMul(IntRat(Width), Rat(fSum, iterations))
                /\ epsilon.coef = IntRat(Width)
                /\ epsilon.rad = Rat(iterations * fSquaredSum - fSum * fSum,
                                     iterations * iterations * iterations)
           ELSE /\ area = RatMul(ratio, RatMul(Rat(3, 2), epsilon.coef))
                /\ epsilon.rad = RatDiv(RatMul(ratio, RatSub(IntRat(1), ratio)),
                                        IntRat(Len(randomX) - 1))

\* C1 witness: monte_carlo_average returns after three iterations, the error
\* of the second one having been too large
C1_Witness ==
    /\ pc = "returned" /\ CallableMode /\ estimator = "average"
    /\ iterations = 3
    /\ returned = area

\* The error estimate of an executed iteration is below acceptableError
BelowError ==
    /\ pc \in {"loop", "returned"}
    /\ iterations >= 1
    /\ ~epsilon.inf
    /\ RatLT(SignedSquareOfSurd(epsilon), SignedSquareOfRat(acceptableError))

\* Callable mode, and at least one warm-up sample for hit-or-miss
CapCase == CallableMode /\ (estimator = "hit_or_miss" => numberSamples >= 1)

C3_TypeRejection ==
    /\ (function.kind \in {"int", "dict"} /\ pc # "call") => pc = "TypeError"
    /\ pc = "TypeError" => (draws = 0 /\ evals = 0 /\ iterations = 0)

\* C3 witness: monte_carlo_hit_or_miss rejected a dictionary
C3_Witness ==
    pc = "TypeError" /\ function.kind = "dict" /\ estimator = "hit_or_miss"

AfterWarmup ==
    /\ estimator = "hit_or_miss" /\ CallableMode
    /\ pc \in {"loop", "returned", "RuntimeError"}

\* C5: in callable mode of monte_carlo_hit_or_miss there are numberSamples x
\* and numberSamples y samples after the warm-up and numberSamples + N of each
\* after N completed iterations; samples are only ever appended.
C5_SampleGrowth ==
    /\ [](AfterWarmup => /\ Len(randomX) = numberSamples + iterations
                         /\ Len(randomY) = numberSamples + iterations)
    /\ [][IsPrefix(randomX, randomX') /\ IsPrefix(randomY, randomY')]_vars

\* C5 witness: two warm-up samples and two completed iterations
C5_Witness ==
    /\ AfterWarmup
    /\ numberSamples = 2 /\ iterations = 2
    /\ Len(randomX) = 4 /\ Len(randomY) = 4

\* C6: callable-mode monte_carlo_average never returns before two iterations
\* have completed: with fewer than two the loop goes on, whatever epsilon is.
C6_TwoIterations ==
    (estimator = "average" /\ CallableMode) =>
        /\ pc = "returned" => iterations >= 2
        /\ (pc = "loop" /\ iterations <= 1) => ~ENABLED AverageReturn

\* C6 witness: a constant integrand (epsilon = 0 after the first sample, below
\* acceptableError) returned after exactly two iterations
C6_Witness ==
    /\ pc = "returned" /\ estimator = "average"
    /\ function = Arg("function", "one", <<>>)
    /\ RatLT(IntRat(0), acceptableError)
    /\ iterations = 2

\* C7: in callable mode of both estimators the iteration counter never exceeds
\* maximumIterations, also when the RuntimeError is raised, and each pass of
\* the loop that does not raise it adds exactly 1.
C7_IterationCounter ==
    /\ [](CallableMode => (iterations >= 0 /\ iterations <= maximumIterations))
    /\ [][/\ iterations' = iterations \/ iterations' = iterations + 1
          /\ (AverageIterate \/ HitOrMissIterate) => iterations' = iterations + 1]_vars

\* C7 witness: monte_carlo_average raised the RuntimeError with the counter
\* at maximumIterations = 2
C7_Witness ==
    /\ pc = "RuntimeError" /\ estimator = "average"
    /\ maximumIterations = 2 /\ iterations = 2

\* C8 (the claim as stated): every callable integrand, a built-in function or
\* a callable object included, is processed in callable mode: no TypeError.
C8_CallablesAccepted ==
    function.kind \in {"function", "builtin", "callable_object"} => pc # "TypeError"

\* 1 if the last (x, y) pair drawn is a hit, else 0
LastHit ==
    IF randomY[Len(randomY)] <= Call(function.name, randomX[Len(randomX)]) THEN 1 ELSE 0

\* Callable-mode hit-or-miss with at least one completed iteration
Refined == AfterWarmup /\ iterations >= 1

\* C9 (the claim as stated): the ratio of iteration N is cumulative hits over
\* the numberSamples + N samples that include the pair drawn in iteration N.
C9_RatioAfterDraw ==
    Refined => /\ Len(randomX) = numberSamples + iterations
               /\ ratio = Rat(hits, Len(randomX))

\* C9 (amended): the ratio, epsilon and area of iteration N are computed before
\* that iteration's pair is drawn, from the hits and the numberSamples + N - 1
\* samples of the warm-up and the earlier iterations.
C9_RatioBeforeDraw ==
    Refined =>
        /\ Len(randomX) - 1 = numberSamples + iterations - 1
        /\ ratio = Rat(hits - LastHit, numberSamples + iterations - 1)
        /\ epsilon.rad = RatDiv(RatMul(ratio, RatSub(IntRat(1), ratio)),
                                IntRat(numberSamples + iterations - 1))
        /\ area = RatMul(ratio, RatMul(Rat(3, 2), epsilon.coef))

\* C9 witness: the pair drawn in the second iteration is a hit that the ratio
\* of that iteration does not count
C9_Witness ==
    /\ Refined /\ pc = "loop" /\ iterations = 2
    /\ LastHit = 1
    /\ ratio # Rat(hits, Len(randomX))

\* C10 (the claim as stated): each table-mode step counts a hit iff the sample
\* it has just drawn is <= the y-value of the point being sampled.
C10_NewSampleTested ==
    [][HitOrMissTableSample =>
         (hits' = hits + 1 <=> randomY'[Len(randomY')] <= function.val[2][i + 1])]_vars

\* Table mode of monte_carlo_hit_or_miss with at least one sample drawn
TableSampled ==
    /\ estimator = "hit_or_miss" /\ function.kind \in {"list", "tuple"}
    /\ pc \in {"table", "tableDone", "returned"}
    /\ Len(randomY) > 0

\* C11 (the claim as stated): in table mode the ratio and the area are
\* recomputed after every sample, hit or miss, so that they always equal
\* hits so far / samples so far and ratio * (max(row0) - min(row0)) * maxY, and
\* the returned area comes from total hits / (M * numberSamples).
C11_RatioEverySample ==
    TableSampled =>
        /\ ratio = Rat(hits, Len(randomY))
        /\ area = HitOrMissArea(ratio,
                                MaxSeq(function.val[1]) - MinSeq(function.val[1]),
                                maxY)
        /\ pc = "returned" =>
              /\ Len(randomY) = Len(function.val[2]) * numberSamples
              /\ returned = area

\* The area monte_carlo_average returns for the sequence ys over the limits lim
SequenceAreaOver(ys, lim) ==
    AverageArea(lim[2] - lim[1], Rat(SumSeq(ys), Len(ys)))

\* C12 (the claim as stated): lowerLimit and upperLimit are ignored for a list
\* or tuple: the area returned for a sequence is the area every call with the
\* same sequence and other limits returns.
C12_LimitsIgnored ==
    (estimator = "average" /\ IsSequence(function) /\ pc = "returned") =>
        \A lim \in SequenceLimits : returned = SequenceAreaOver(function.val, lim)

\* Callable mode of monte_carlo_hit_or_miss, past the type dispatch
HitOrMissCallable ==
    estimator = "hit_or_miss" /\ CallableMode /\ pc # "call"

\* max(0, f(x) for x in xs)
RECURSIVE MaxOverSamples(_, _)
MaxOverSamples(name, xs) ==
    IF xs = <<>> THEN 0
    ELSE LET m == MaxOverSamples(name, Tail(xs))
             fx == Call(name, Head(xs))
         IN  IF fx > m THEN fx ELSE m

\* C19: in the warm-up of callable-mode hit-or-miss every one of the
\* numberSamples x values is drawn, and maxY is at its warm-up maximum, before
\* the first y is drawn; each warm-up y is drawn from [0, maxY] with maxY left
\* as it is, and the k-th y is tested against f of the k-th x to count a hit.
C19_WarmupOrdering ==
    /\ [](HitOrMissCallable =>
            /\ (pc = "warmupX" => randomY = <<>>)
            /\ (pc = "warmupY" \/ randomY # <<>>) => Len(randomX) >= numberSamples
            /\ pc = "warmupY" => /\ Len(randomX) = numberSamples
                                 /\ Len(randomY) < numberSamples
                                 /\ maxY = MaxOverSamples(function.name, randomX))
    /\ [][HitOrMissWarmupY =>
            LET k == Len(randomY')
            IN  /\ k = Len(randomY) + 1
                /\ SubSeq(randomY', 1, k - 1) = randomY
                /\ randomX' = randomX /\ maxY' = maxY
                /\ randomY'[k] >= 0 /\ randomY'[k] <= maxY
                /\ hits' = hits + (IF randomY'[k] <= Call(function.name, randomX[k])
                                   THEN 1 ELSE 0)]_vars

\* C19 witness: x = 0 then x = 1 under the identity; the first y is 1, drawn
\* from [0, 1] although f of the first x is 0, and misses; the second y is 0
\* and hits against f of the second x
C19_Witness ==
    /\ HitOrMissCallable /\ pc = "loop" /\ iterations = 0
    /\ function.name = "identity"
    /\ randomX = <<0, 1>> /\ randomY = <<1, 0>>
    /\ maxY = 1 /\ hits = 1

\* C20: in callable mode of monte_carlo_hit_or_miss maxY starts at 0, never
\* decreases and is max(0, f(x) over all x sampled so far) after every warm-up
\* step and every iteration; hits never exceed the number of samples, and the
\* ratio of every iteration lies in [0, 1].
C20_RunningMaximum ==
    /\ [](HitOrMissCallable =>
            /\ maxY = MaxOverSamples(function.name, randomX)
            /\ maxY >= 0
            /\ hits >= 0 /\ hits <= Len(randomY)
            /\ (iterations >= 1 /\ pc # "ZeroDivisionError") =>
                  /\ IsBound(ratio)
                  /\ RatGE(ratio, IntRat(0)) /\ RatGE(IntRat(1), ratio))
    /\ [][HitOrMissCallable => maxY' >= maxY]_vars

\* C20 witness: under the identity on [1, 2] the warm-up draws x = 1, the
\* first iteration raises maxY to 2 and the second one, drawing x = 1, keeps it
C20_Witness ==
    /\ HitOrMissCallable /\ pc = "loop" /\ iterations = 2
    /\ function.name = "identity"
    /\ randomX = <<1, 2, 1>>
    /\ maxY = 2

(***************************************************************************)
(* src/misc/war.py: one game, from the hands shuffle_and_deal returns to    *)
(* the return of play.  An action is one pass of the battle loop of play   *)
(* or one pass of the while loop of begin_war.                             *)
(***************************************************************************)
\* A game is followed for at most MaxBattles battles
MaxBattles == 12

\* len(player1Hand) == 52
DeckSize == 52
\* warHistogram = [0]*6
HistogramSize == 6
\* Mutant of CardsPerWar: for i in range(4 - 4), a war round lays down no card
CardsPerWarNone == 4 - 4

\* for i in range(4)
CardsPerWar == 4
\* if warSequence > 5
LastCountedSequence == 5

\* deck = [2, 3, ..., 14]*4
NewDeck == [k \in 1..DeckSize |-> 2 + ((k - 1) % 13)]

\* The number of cards of rank r in deck
CountOf(deck, r) == Cardinality({k \in DOMAIN deck : deck[k] = r})

\* deck is NewDeck in another order
IsShuffled(deck) ==
    /\ Len(deck) = Len(NewDeck)
    /\ \A r \in 2..14 : CountOf(deck, r) = CountOf(NewDeck, r)

\* Outcomes of random.shuffle(deck) in shuffle_and_deal.
\* DeckSevenTies: the first battle and the fourth cards of six war rounds tie
DeckSevenTies ==
    << 10, 10, 3, 10, 13, 7, 8, 14, 11, 11, 13, 14, 5, 12, 4, 12, 9, 9,
       8, 9, 3, 8, 14, 5, 4, 4, 6, 7, 8, 4, 14, 3, 11, 11, 10, 6, 2, 9,
       13, 6, 7, 7, 2, 6, 13, 2, 5, 2, 12, 12, 3, 5 >>
\* DeckSixTies: the first battle and five war rounds tie; player 1 wins the
\* sixth round and the battle after it
DeckSixTies ==
    << 10, 10, 13, 7, 8, 14, 13, 14, 11, 11, 5, 12, 4, 12, 8, 9, 9, 9,
       10, 4, 13, 12, 7, 5, 4, 4, 3, 5, 8, 3, 9, 13, 11, 11, 2, 10, 14,
       8, 2, 6, 7, 7, 2, 6, 14, 6, 5, 6, 12, 3, 3, 2 >>
\* DeckPlayer2RunsOut: player 1 wins a four-round war sequence and five
\* battles; the next battle ties when player 2 has three cards left
DeckPlayer2RunsOut ==
    << 10, 10, 14, 10, 10, 6, 7, 6, 11, 11, 2, 6, 13, 5, 14, 12, 9, 9, 7,
       5, 3, 5, 14, 3, 4, 4, 13, 9, 2, 12, 14, 9, 7, 4, 12, 3, 3, 2, 13,
       7, 8, 4, 13, 5, 11, 11, 6, 8, 12, 8, 2, 8 >>
\* DeckPlayer1RunsOut: the same with the two hands exchanged
DeckPlayer1RunsOut ==
    << 10, 10, 10, 14, 6, 10, 6, 7, 11, 11, 6, 2, 5, 13, 12, 14, 9, 9, 5,
       7, 5, 3, 3, 14, 4, 4, 9, 13, 12, 2, 9, 14, 4, 7, 3, 12, 2, 3, 7,
       13, 4, 8, 5, 13, 11, 11, 8, 6, 8, 12, 8, 2 >>
\* DeckOrdinary: battles won by either player, war sequences of one and of
\* two rounds
DeckOrdinary ==
    << 4, 2, 11, 14, 10, 10, 11, 8, 5, 14, 13, 14, 7, 12, 13, 3, 11, 11,
       5, 12, 4, 12, 8, 9, 9, 9, 10, 4, 2, 12, 7, 6, 3, 2, 7, 8, 7, 5, 9,
       8, 4, 10, 13, 6, 5, 14, 2, 3, 13, 6, 3, 6 >>
Decks ==
    {DeckSevenTies, DeckSixTies, DeckPlayer2RunsOut,
     DeckPlayer1RunsOut, DeckOrdinary}


\* shuffle_and_deal: the cards go to player 1 and player 2 in turn
Deal(deck) ==
    [p1 |-> [k \in 1..(Len(deck) \div 2) |-> deck[2 * k - 1]],
     p2 |-> [k \in 1..(Len(deck) \div 2) |-> deck[2 * k]]]

Reverse(deck) == [k \in 1..Len(deck) |-> deck[Len(deck) + 1 - k]]
Rotate(deck) == IF deck = <<>> THEN deck ELSE Append(Tail(deck), Head(deck))

\* Outcomes of random.shuffle(winningDeck): for the two cards of a battle both
\* orders, for the cards of a war sequence three of the orders
Shuffles(deck) == {deck, Reverse(deck), Rotate(deck)}

\* Mutant of BattleWinner: the lower card wins
BattleWinnerLower(card1, card2) ==
    IF card1 < card2 THEN 1 ELSE IF card1 = card2 THEN 0 ELSE 2

\* The comparison of the two cards that decide a battle or a war round:
\* 1 or 2 for the player with the higher card, 0 for equal cards
BattleWinner(card1, card2) ==
    IF card1 > card2 THEN 1 ELSE IF card1 = card2 THEN 0 ELSE 2

\* Mutant of LayDown: the card player 1 has laid when player 2's pop raises
\* is lost
RECURSIVE LayDownDropsCard(_, _, _, _)
LayDownDropsCard(hand1, hand2, deck, n) ==
    IF n = 0 THEN [p1 |-> hand1, p2 |-> hand2, deck |-> deck, raised |-> FALSE]
    ELSE IF hand1 = <<>>
         THEN [p1 |-> hand1, p2 |-> hand2, deck |-> deck, raised |-> TRUE]
    ELSE IF hand2 = <<>>
         THEN [p1 |-> Tail(hand1), p2 |-> hand2, deck |-> deck, raised |-> TRUE]
    ELSE LayDownDropsCard(Tail(hand1), Tail(hand2),
                          deck \o <<Head(hand1), Head(hand2)>>, n - 1)

\* for i in range(4): both players lay down a card, until n pairs are laid or
\* a pop(0) raises IndexError
\* (the card player 1 has laid when player 2's pop raises stays in the deck)
RECURSIVE LayDown(_, _, _, _)
LayDown(hand1, hand2, deck, n) ==
    IF n = 0 THEN [p1 |-> hand1, p2 |-> hand2, deck |-> deck, raised |-> FALSE]
    ELSE IF hand1 = <<>>
         THEN [p1 |-> hand1, p2 |-> hand2, deck |-> deck, raised |-> TRUE]
    ELSE IF hand2 = <<>>
         THEN [p1 |-> Tail(hand1), p2 |-> hand2,
               deck |-> Append(deck, Head(hand1)), raised |-> TRUE]
    ELSE LayDown(Tail(hand1), Tail(hand2),
                 deck \o <<Head(hand1), Head(hand2)>>, n - 1)

\* Mutant of RunOutWinner: player 1 takes the winning deck
RunOutWinnerOne(hand1) == 1

\* if len(player1Hand) == 0: player 2 takes the winning deck, else player 1
RunOutWinner(hand1) == IF Len(hand1) = 0 THEN 2 ELSE 1

\* if warSequence > 5: (nothing) else: warHistogram[warSequence] += 1
CountSequence(histogram, sequence) ==
    IF sequence > LastCountedSequence THEN histogram
    ELSE [histogram EXCEPT ![sequence + 1] = @ + 1]

\* numWars = warHistogram[0] + warHistogram[1]*2 + ... + warHistogram[5]*6
RECURSIVE WeightedSum(_, _)
WeightedSum(histogram, k) ==
    IF k = 0 THEN 0 ELSE histogram[k] * k + WeightedSum(histogram, k - 1)

\* The hands shuffle_and_deal returns, and the locals of play before its loop
InitWar ==
    /\ NotCalled
    /\ NotSearched
    /\ NoImage
    /\ \E deck \in Decks :
         /\ IsShuffled(deck)
         /\ player1Hand = Deal(deck).p1
         /\ player2Hand = Deal(deck).p2
    /\ winningDeck = <<>>
    /\ winner = 0
    /\ numBattles = 0
    /\ numWars = 0
    /\ warHistogram = [k \in 1..HistogramSize |-> 0]
    /\ warSequence = 0
    /\ topBattles = 0
    /\ ties = 0
    /\ warRounds = 0
    /\ pc = "play"


\* The cards a war round lays down from the current hands
Laid == LayDown(player1Hand, player2Hand, winningDeck, CardsPerWar)

\* play: a player has all the cards; count the wars and return
PlayReturn ==
    /\ pc = "play"
    /\ Len(player1Hand) = DeckSize \/ Len(player2Hand) = DeckSize
    /\ winner' = IF Len(player1Hand) = DeckSize THEN 1 ELSE 2
    /\ numWars' = WeightedSum(warHistogram, HistogramSize)
    /\ pc' = "returned"
    /\ UNCHANGED <<monteCarloVars, bbVars, histogramVars, player1Hand, player2Hand, winningDeck,
                   numBattles, warHistogram, warSequence, topBattles, ties,
                   warRounds>>

\* play: a battle with unequal cards; the higher card takes both
PlayBattle ==
    /\ pc = "play"
    /\ Len(player1Hand) # DeckSize /\ Len(player2Hand) # DeckSize
    /\ player1Hand # <<>> /\ player2Hand # <<>>
    /\ numBattles < MaxBattles
    /\ BattleWinner(Head(player1Hand), Head(player2Hand)) # 0
    /\ numBattles' = numBattles + 1
    /\ topBattles' = topBattles + 1
    /\ \E shuffled \in Shuffles(<<Head(player1Hand), Head(player2Hand)>>) :
         /\ winningDeck' = shuffled
         /\ IF BattleWinner(Head(player1Hand), Head(player2Hand)) = 1
            THEN /\ player1Hand' = Tail(player1Hand) \o shuffled
                 /\ player2Hand' = Tail(player2Hand)
            ELSE /\ player1Hand' = Tail(player1Hand)
                 /\ player2Hand' = Tail(player2Hand) \o shuffled
    /\ UNCHANGED <<monteCarloVars, bbVars, histogramVars, pc, winner, numWars, warHistogram,
                   warSequence, ties, warRounds>>

\* play: a battle with equal cards calls begin_war
PlayWar ==
    /\ pc = "play"
    /\ Len(player1Hand) # DeckSize /\ Len(player2Hand) # DeckSize
    /\ player1Hand # <<>> /\ player2Hand # <<>>
    /\ numBattles < MaxBattles
    /\ BattleWinner(Head(player1Hand), Head(player2Hand)) = 0
    /\ numBattles' = numBattles + 1
    /\ topBattles' = topBattles + 1
    /\ ties' = ties + 1
    /\ winningDeck' = <<Head(player1Hand), Head(player2Hand)>>
    /\ player1Hand' = Tail(player1Hand)
    /\ player2Hand' = Tail(player2Hand)
    /\ warSequence' = 0
    /\ pc' = "begin_war"
    /\ UNCHANGED <<monteCarloVars, bbVars, histogramVars, winner, numWars, warHistogram, warRounds>>

\* begin_war: a player runs out of cards while the round is laid down
WarRunOut ==
    /\ pc = "begin_war"
    /\ Laid.raised
    /\ numBattles' = numBattles + 1
    /\ warRounds' = warRounds + 1
    /\ \E shuffled \in Shuffles(Laid.deck) :
         /\ winningDeck' = shuffled
         /\ IF RunOutWinner(Laid.p1) = 2
            THEN /\ player1Hand' = Laid.p1
                 /\ player2Hand' = Laid.p2 \o shuffled
            ELSE /\ player1Hand' = Laid.p1 \o shuffled
                 /\ player2Hand' = Laid.p2
    /\ warHistogram' = CountSequence(warHistogram, warSequence)
    /\ pc' = "play"
    /\ UNCHANGED <<monteCarloVars, bbVars, histogramVars, winner, numWars, warSequence, topBattles, ties>>

\* begin_war: the fourth cards differ; the higher one takes the winning deck
WarWon ==
    /\ pc = "begin_war"
    /\ ~Laid.raised
    /\ warSequence < HistogramSize
    /\ LET deck == Laid.deck
           won == BattleWinner(deck[Len(deck) - 1], deck[Len(deck)])
       IN  /\ won # 0
           /\ \E shuffled \in Shuffles(deck) :
                /\ winningDeck' = shuffled
                /\ IF won = 1
                   THEN /\ player1Hand' = Laid.p1 \o shuffled
                        /\ player2Hand' = Laid.p2
                   ELSE /\ player1Hand' = Laid.p1
                        /\ player2Hand' = Laid.p2 \o shuffled
    /\ numBattles' = numBattles + 1
    /\ warRounds' = warRounds + 1
    /\ warHistogram' = [warHistogram EXCEPT ![warSequence + 1] = @ + 1]
    /\ pc' = "play"
    /\ UNCHANGED <<monteCarloVars, bbVars, histogramVars, winner, numWars, warSequence, topBattles, ties>>

\* begin_war: the fourth cards are equal; another round follows
WarTied ==
    /\ pc = "begin_war"
    /\ ~Laid.raised
    /\ LET deck == Laid.deck
       IN  BattleWinner(deck[Len(deck) - 1], deck[Len(deck)]) = 0
    /\ numBattles' = numBattles + 1
    /\ warRounds' = warRounds + 1
    /\ winningDeck' = Laid.deck
    /\ player1Hand' = Laid.p1
    /\ player2Hand' = Laid.p2
    /\ warSequence' = warSequence + 1
    /\ UNCHANGED <<monteCarloVars, bbVars, histogramVars, pc, winner, numWars, warHistogram,
                   topBattles, ties>>

NextWar ==
    \/ PlayReturn
    \/ PlayBattle
    \/ PlayWar
    \/ WarRunOut
    \/ WarWon
    \/ WarTied

SpecWar == InitWar /\ [][NextWar]_vars


(***************************************************************************)
(* Properties of war.                                                      *)
(***************************************************************************)
\* The cards of a game that are in a hand or on the table
CardsInPlay ==
    Len(player1Hand) + Len(player2Hand)
        + (IF pc = "begin_war" THEN Len(winningDeck) ELSE 0)

\* C13: play, started from dealt hands, returns only when one player holds
\* all 52 cards and the other none; winner is 1 iff player 1 holds them, 2 iff
\* player 2 does, and never 0.  (No card is lost on the way, and play never
\* pops from an empty hand.)
C13_WinnerHoldsAll ==
    /\ CardsInPlay = DeckSize
    /\ pc = "play" =>
          \/ Len(player1Hand) = DeckSize
          \/ Len(player2Hand) = DeckSize
          \/ player1Hand # <<>> /\ player2Hand # <<>>
    /\ pc # "returned" => winner = 0
    /\ pc = "returned" =>
          /\ winner \in {1, 2}
          /\ winner = 1 <=> (Len(player1Hand) = DeckSize /\ player2Hand = <<>>)
          /\ winner = 2 <=> (Len(player2Hand) = DeckSize /\ player1Hand = <<>>)

\* C13 witness: player 1 has won the game dealt from DeckSixTies
C13_Witness ==
    /\ pc = "returned" /\ winner = 1
    /\ Len(player1Hand) = DeckSize /\ player2Hand = <<>>
    /\ numBattles = 8

\* The player whose pop(0) raises in a war round that cannot be completed:
\* player 1 lays down first
RunsOut == IF Len(player1Hand) <= Len(player2Hand) THEN 1 ELSE 2

\* The cards on the table after that round: the winning deck, the cards the
\* player who runs out still had, and as many (player 1 running out) or one
\* more (player 2 running out) from the other player
TableAtRunOut ==
    IF RunsOut = 1
    THEN winningDeck \o player1Hand \o SubSeq(player2Hand, 1, Len(player1Hand))
    ELSE winningDeck \o player2Hand \o SubSeq(player1Hand, 1, Len(player2Hand) + 1)

\* s and t hold the same cards
SameCards(s, t) ==
    Len(s) = Len(t) /\ \A r \in 2..14 : CountOf(s, r) = CountOf(t, r)

\* C14: when a player runs out of cards while a war round is laid down, the
\* other player gets every card of the winning deck, the cards laid in this
\* round included, behind the cards left in their hand; the player who ran
\* out is left with nothing, and begin_war returns at once.
C14_RunOutLoses ==
    [][WarRunOut =>
         LET kept == IF RunsOut = 1
                     THEN SubSeq(player2Hand, Len(player1Hand) + 1, Len(player2Hand))
                     ELSE SubSeq(player1Hand, Len(player2Hand) + 2, Len(player1Hand))
             gets == IF RunsOut = 1 THEN player2Hand' ELSE player1Hand'
             left == IF RunsOut = 1 THEN player1Hand' ELSE player2Hand'
         IN  /\ left = <<>>
             /\ Len(gets) = Len(kept) + Len(TableAtRunOut)
             /\ SubSeq(gets, 1, Len(kept)) = kept
             /\ SameCards(SubSeq(gets, Len(kept) + 1, Len(gets)), TableAtRunOut)
             /\ pc' = "play"
             /\ warSequence' = warSequence
             /\ warRounds' = warRounds + 1]_vars

\* C14 witness: in the game dealt from DeckPlayer2RunsOut player 2 could not
\* lay the fourth card of a war round and player 1 has taken all the cards
C14_Witness ==
    /\ pc = "play"
    /\ player2Hand = <<>> /\ Len(player1Hand) = DeckSize
    /\ numBattles = 12 /\ warRounds = 5 /\ ties = 2
    /\ warHistogram = <<1, 0, 0, 1, 0, 0>>


\* C15: at most six wars are played in one war sequence of a game on the 52
\* cards: warSequence never exceeds 6, a round that both players can lay down
\* completely has warSequence in 0..5, warHistogram[warSequence] is
\* incremented only with warSequence in 0..5, and every round that ties
\* takes cards out of the hands, so that begin_war terminates.
C15_SixWars ==
    /\ [](pc \in {"play", "begin_war", "returned"} =>
            /\ warSequence \in 0..6
            /\ Len(warHistogram) = HistogramSize
            /\ (/\ pc = "begin_war"
                /\ Len(player1Hand) >= CardsPerWar
                /\ Len(player2Hand) >= CardsPerWar) => warSequence \in 0..5)
    /\ [][warHistogram' # warHistogram =>
            /\ warSequence \in 0..5
            /\ warHistogram' = [warHistogram EXCEPT ![warSequence + 1] = @ + 1]]_vars
    /\ [][WarTied =>
            /\ Len(player1Hand') + Len(player2Hand')
                  < Len(player1Hand) + Len(player2Hand)
            /\ warSequence' = warSequence + 1]_vars

\* C15 witness: the game dealt from DeckSevenTies after six rounds that tied:
\* 50 cards on the table, one card in each hand, warSequence = 6
C15_Witness ==
    /\ pc = "begin_war" /\ warSequence = 6
    /\ Len(winningDeck) = 50
    /\ Len(player1Hand) = 1 /\ Len(player2Hand) = 1
    /\ warHistogram = <<0, 0, 0, 0, 0, 0>>

\* C16 (the claim as stated): the numWars play returns is the number of passes
\* of the war-round loop of begin_war, so numBattles is the number of battles
\* of play plus numWars, and the entries of warHistogram add up to the number
\* of battles that tied.
C16_NumWarsCountsRounds ==
    pc = "returned" =>
        /\ numWars = warRounds
        /\ numBattles = topBattles + numWars
        /\ SumSeq(warHistogram) = ties


(***************************************************************************)
(* src/bb_temperature.py: one call of bb_temperature.  An action is one     *)
(* pass of the while loop.                                                 *)
(*                                                                         *)
(* Temperatures are exact fractions.  A radiance is kept as the wavelength *)
(* and the temperature of the blackbody that emits it: at one wavelength   *)
(* Planck's equation is strictly increasing in the temperature, so two     *)
(* radiances compare as their temperatures do.  The radiance of a body at  *)
(* 0 K is 0.                                                               *)
(***************************************************************************)
\* high_temp = 6000
HighestTemperature == 6000

\* math.exp(x) raises OverflowError when x is above 709.78, the logarithm of
\* the largest float; taken on the integer part of x
ExpRange == 710

\* C2 = 1.43879*10**4, in micron K
C2 == Rat(143879, 10)

\* wavelength, in microns
Wavelengths == {1, 10}
\* The temperatures of the blackbodies whose radiance is passed
BodyTemperatures == {0, 300, 1000, 4500, 6000}
\* epsilon
Precisions == {10, 100, 2000, 6000}

\* The radiance of a blackbody at temperature t, at wavelength w
RadianceOf(w, t) == [wavelength |-> w, temperature |-> t]

\* exponent = C2 / (wavelength * temperature); exp(exponent)
ExpOverflows(w, t) ==
    LET exponent == RatDiv(C2, RatMul(IntRat(w), t))
    IN  exponent.num \div exponent.den >= ExpRange

\* planck_bb_eq(wavelength, temperature), for temperature > 0
planck_bb_eq(w, t) ==
    IF ExpOverflows(w, t) THEN "OverflowError" ELSE RadianceOf(w, t)

\* current_radiance > radiance
Brighter(a, b) == RatLT(b.temperature, a.temperature)

\* (high_temp + low_temp)/2
Midpoint(high, low) ==
    Rat(high.num * low.den + low.num * high.den, 2 * high.den * low.den)

\* (high_temp - low_temp) > epsilon
SearchContinues(high, low, eps) == RatLT(IntRat(eps), RatSub(high, low))

InitBB ==
    /\ NotCalled
    /\ NotPlayed
    /\ NoImage
    /\ wavelength \in Wavelengths
    /\ \E t \in BodyTemperatures : radiance = RadianceOf(wavelength, IntRat(t))
    /\ bbEpsilon \in Precisions
    /\ low_temp = IntRat(0)
    /\ high_temp = IntRat(HighestTemperature)
    /\ temperature = Unbound
    /\ pc = "search"

\* One pass of the loop: the half of the interval that holds the radiance
BBIterate ==
    /\ pc = "search"
    /\ SearchContinues(high_temp, low_temp, bbEpsilon)
    /\ ~ExpOverflows(wavelength, Midpoint(high_temp, low_temp))
    /\ temperature' = Midpoint(high_temp, low_temp)
    /\ IF Brighter(planck_bb_eq(wavelength, temperature'), radiance)
       THEN high_temp' = temperature' /\ low_temp' = low_temp
       ELSE low_temp' = temperature' /\ high_temp' = high_temp
    /\ UNCHANGED <<monteCarloVars, warVars, histogramVars, pc, wavelength,
                   radiance, bbEpsilon>>

\* One pass of the loop in which planck_bb_eq raises OverflowError
BBOverflow ==
    /\ pc = "search"
    /\ SearchContinues(high_temp, low_temp, bbEpsilon)
    /\ ExpOverflows(wavelength, Midpoint(high_temp, low_temp))
    /\ temperature' = Midpoint(high_temp, low_temp)
    /\ pc' = "OverflowError"
    /\ UNCHANGED <<monteCarloVars, warVars, histogramVars, wavelength, radiance,
                   bbEpsilon, low_temp, high_temp>>

\* The interval is narrow enough: return temperature
BBReturn ==
    /\ pc = "search"
    /\ ~SearchContinues(high_temp, low_temp, bbEpsilon)
    /\ IsBound(temperature)
    /\ pc' = "returned"
    /\ UNCHANGED <<monteCarloVars, warVars, histogramVars, bbVars>>

\* The loop is not entered: temperature was never assigned
BBUnbound ==
    /\ pc = "search"
    /\ ~SearchContinues(high_temp, low_temp, bbEpsilon)
    /\ ~IsBound(temperature)
    /\ pc' = "UnboundLocalError"
    /\ UNCHANGED <<monteCarloVars, warVars, histogramVars, bbVars>>

NextBB ==
    \/ BBIterate
    \/ BBOverflow
    \/ BBReturn
    \/ BBUnbound

SpecBB == InitBB /\ [][NextBB]_vars


(***************************************************************************)
(* Properties of bb_temperature.                                           *)
(***************************************************************************)
\* low <= t <= high
Between(low, t, high) == RatGE(t, low) /\ RatGE(high, t)

\* C17 (the claim as stated): for 0 < epsilon < 6000 and the radiance of a
\* body at a temperature T* in [0, 6000], the search keeps
\* low_temp <= T* <= high_temp, halves high_temp - low_temp in every
\* iteration, and ends by returning a temperature in [0, 6000] that is within
\* epsilon of T*.
C17_BinarySearch ==
    /\ []((/\ pc \in {"search", "returned", "OverflowError", "UnboundLocalError"}
           /\ bbEpsilon > 0 /\ bbEpsilon < HighestTemperature) =>
            /\ Between(low_temp, radiance.temperature, high_temp)
            /\ pc \in {"search", "returned"}
            /\ pc = "returned" =>
                  /\ Between(IntRat(0), temperature, IntRat(HighestTemperature))
                  /\ Between(RatSub(radiance.temperature, IntRat(bbEpsilon)),
                             temperature,
                             RatSub(radiance.temperature, IntRat(-bbEpsilon))))
    /\ [][BBIterate =>
            RatSub(high_temp', low_temp')
                = RatDiv(RatSub(high_temp, low_temp), IntRat(2))]_vars


(***************************************************************************)
(* src/computing_and_control/ipcv/histogram_brute_force.py and             *)
(* histogram_numpy.py: the two histogram functions called, one after the   *)
(* other, on the same image with the same bitDepth.  An image is the       *)
(* sequence of its planes (one for a greyscale image, three for a colour   *)
(* image), a plane the sequence of its pixel values, row after row.  A     *)
(* list indexed from 0 in the code is a sequence indexed from 1 here.      *)
(***************************************************************************)
\* An image has 1..MaxPixels pixels
MaxPixels == 2
\* bitDepth ranges over 1..MaxBitDepth
MaxBitDepth == 2

\* maxCount = 2**bitDepth
MaxCount(depth) == 2 ^ depth

\* Planes of n pixels of the given bit depth
Planes(depth, n) == [1..n -> 0..(MaxCount(depth) - 1)]

\* Greyscale images of every bit depth, colour images of bit depth 1
Images(depth) ==
    UNION {{<<p>> : p \in Planes(depth, n)} : n \in 1..MaxPixels}
        \cup (IF depth = 1
              THEN UNION {{<<b, g, r>> : b \in Planes(depth, n), g \in Planes(depth, n),
                                         r \in Planes(depth, n)} : n \in 1..MaxPixels}
              ELSE {})

\* len(image.shape) == 3
IsColor(im) == Len(im) = 3

\* numPixels = rows*cols
NumPixels(im) == Len(im[1])

\* [[0]*maxCount, ...]: a list of zeros for every plane
Zeros(im, depth, zero) == [p \in 1..Len(im) |-> [v \in 1..MaxCount(depth) |-> zero]]

RatAdd(a, b) == Rat(a.num * b.den + b.num * a.den, a.den * b.den)

\* sum(values[0:n])
RECURSIVE SumOfSlice(_, _)
SumOfSlice(values, n) ==
    IF n = 0 THEN IntRat(0) ELSE RatAdd(SumOfSlice(values, n - 1), values[n])

\* cdf[plane][x] = sum(pdf[plane][0:x])
BruteForceCdfAt(values, k) == SumOfSlice(values, k)

\* numpy.histogram(plane, bins=range(maxCount + 1)): the pixels of each value
NumpyHistogram(pixels, depth) ==
    [v \in 1..MaxCount(depth) |->
        Cardinality({k \in DOMAIN pixels : pixels[k] = v - 1})]

\* numpy.cumsum(pdf)
NumpyCumsum(values) == [v \in DOMAIN values |-> SumOfSlice(values, v)]

InitHistogram ==
    /\ NotCalled
    /\ NotPlayed
    /\ NotSearched
    /\ bitDepth \in 1..MaxBitDepth
    /\ image \in Images(bitDepth)
    /\ bruteH = Zeros(image, bitDepth, 0)
    /\ brutePdf = Zeros(image, bitDepth, IntRat(0))
    /\ bruteCdf = Zeros(image, bitDepth, IntRat(0))
    /\ plane = 0
    /\ pixel = 0
    /\ bin = 0
    /\ numpyH = <<>>
    /\ numpyPdf = <<>>
    /\ numpyCdf = <<>>
    /\ pc = "count"


\* histogram_brute_force: one pass of the innermost pixel loop
BruteForceCount ==
    /\ pc = "count"
    /\ LET value == image[plane + 1][pixel + 1]
       IN  /\ bruteH' = [bruteH EXCEPT ![plane + 1][value + 1] = @ + 1]
           /\ brutePdf' = [brutePdf EXCEPT ![plane + 1][value + 1] =
                              RatAdd(@, Rat(1, NumPixels(image)))]
    /\ IF pixel + 1 < NumPixels(image)
       THEN pixel' = pixel + 1 /\ plane' = plane /\ pc' = pc
       ELSE /\ pixel' = 0
            /\ IF plane + 1 < Len(image)
               THEN plane' = plane + 1 /\ pc' = pc
               ELSE plane' = 0 /\ pc' = "cdf"
    /\ UNCHANGED <<monteCarloVars, warVars, bbVars, image, bitDepth, bruteCdf,
                   bin, numpyH, numpyPdf, numpyCdf>>

\* histogram_brute_force: one pass of the loop that fills cdf[plane][x]
BruteForceCdf ==
    /\ pc = "cdf"
    /\ bruteCdf' = [bruteCdf EXCEPT ![plane + 1][bin + 1] =
                       BruteForceCdfAt(brutePdf[plane + 1], bin)]
    /\ IF bin + 1 < MaxCount(bitDepth)
       THEN bin' = bin + 1 /\ plane' = plane /\ pc' = pc
       ELSE /\ bin' = 0
            /\ IF plane + 1 < Len(image)
               THEN plane' = plane + 1 /\ pc' = pc
               ELSE plane' = 0 /\ pc' = "numpy"
    /\ UNCHANGED <<monteCarloVars, warVars, bbVars, image, bitDepth, bruteH,
                   brutePdf, pixel, numpyH, numpyPdf, numpyCdf>>

\* histogram_numpy on a colour image: a row of h, pdf and cdf for every plane
NumpyColor ==
    /\ pc = "numpy"
    /\ IsColor(image)
    /\ numpyH' = [p \in 1..Len(image) |-> NumpyHistogram(image[p], bitDepth)]
    /\ numpyPdf' = [p \in 1..Len(image) |->
                      [v \in 1..MaxCount(bitDepth) |->
                          Rat(numpyH'[p][v], NumPixels(image))]]
    /\ numpyCdf' = [p \in 1..Len(image) |-> NumpyCumsum(numpyPdf'[p])]
    /\ pc' = "returned"
    /\ UNCHANGED <<monteCarloVars, warVars, bbVars, image, bitDepth, bruteH,
                   brutePdf, bruteCdf, plane, pixel, bin>>

\* histogram_numpy on a greyscale image: h, pdf and cdf are flat lists
NumpyGreyscale ==
    /\ pc = "numpy"
    /\ ~IsColor(image)
    /\ numpyH' = NumpyHistogram(image[1], bitDepth)
    /\ numpyPdf' = [v \in 1..MaxCount(bitDepth) |-> Rat(numpyH'[v], NumPixels(image))]
    /\ numpyCdf' = NumpyCumsum(numpyPdf')
    /\ pc' = "returned"
    /\ UNCHANGED <<monteCarloVars, warVars, bbVars, image, bitDepth, bruteH,
                   brutePdf, bruteCdf, plane, pixel, bin>>

NextHistogram ==
    \/ BruteForceCount
    \/ BruteForceCdf
    \/ NumpyColor
    \/ NumpyGreyscale

SpecHistogram == InitHistogram /\ [][NextHistogram]_vars

(***************************************************************************)
(* Properties of the histograms.                                           *)
(***************************************************************************)
\* Plane p of an output of histogram_numpy
NumpyPlane(out, p) == IF IsColor(image) THEN out[p] ELSE out

\* C18 (the claim as stated): for the same image and bitDepth the CDF of each
\* plane returned by histogram_brute_force equals the cumulative sum of
\* histogram_numpy, cdf[x] being the sum of pdf[v] for all v <= x, so that the
\* last entry of the CDF is 1.
C18_SameCdf ==
    pc = "returned" =>
        \A p \in 1..Len(image) :
            /\ bruteCdf[p] = NumpyPlane(numpyCdf, p)
            /\ \A v \in 1..MaxCount(bitDepth) :
                  bruteCdf[p][v] = SumOfSlice(brutePdf[p], v)
            /\ bruteCdf[p][MaxCount(bitDepth)] = IntRat(1)


\* A step of play's loop that lays one card each and compares unequal cards
UnequalBattle ==
    /\ pc = "play" /\ pc' = "play"
    /\ numBattles' = numBattles + 1
    /\ Head(player1Hand) # Head(player2Hand)

\* The hand of the player who laid `high` against `low` after the battle: the
\* cards that were under the laid card, in their order, then the two battle
\* cards in one of their two orders
TakesBattle(hand, high, low) ==
    {Tail(hand) \o <<high, low>>, Tail(hand) \o <<low, high>>}

\* C21: in a battle of play with unequal cards the player who laid the higher
\* card gets the two battle cards, in either order, behind the cards left in
\* their hand; the other player only loses the card laid.  The winner's hand
\* grows by one card, the loser's shrinks by one, and the other cards of both
\* hands keep their order.
C21_BattleFrame ==
    [][UnequalBattle =>
         LET card1 == Head(player1Hand)
             card2 == Head(player2Hand)
         IN  IF card1 > card2
             THEN /\ player1Hand' \in TakesBattle(player1Hand, card1, card2)
                  /\ player2Hand' = Tail(player2Hand)
                  /\ Len(player1Hand') = Len(player1Hand) + 1
                  /\ Len(player2Hand') = Len(player2Hand) - 1
             ELSE /\ player2Hand' \in TakesBattle(player2Hand, card2, card1)
                  /\ player1Hand' = Tail(player1Hand)
                  /\ Len(player2Hand') = Len(player2Hand) + 1
                  /\ Len(player1Hand') = Len(player1Hand) - 1]_vars

\* C21 witness: after the first battle of a game player 1, who laid the higher
\* card, holds 27 cards, the last two being the battle cards with the lower
\* one first; player 2 holds 25
C21_Witness ==
    /\ pc = "play"
    /\ numBattles = 1 /\ topBattles = 1 /\ ties = 0
    /\ Len(player1Hand) = 27 /\ Len(player2Hand) = 25
    /\ winningDeck = <<player1Hand[26], player1Hand[27]>>
    /\ winningDeck[1] < winningDeck[2]


\* monte_carlo_average in callable mode with maximumIterations 0 or 1
SmallLimit ==
    /\ estimator = "average" /\ CallableMode
    /\ maximumIterations \in {0, 1}

\* C22: in callable mode of monte_carlo_average with maximumIterations 0 or 1
\* every call ends in the RuntimeError of the iteration limit, with 0 resp. 1
\* completed iterations, whatever the integrand and acceptableError are.  The
\* call never returns an area and never ends in a ZeroDivisionError or another
\* error; the loop condition holds at every test, each pass draws one number
\* and either raises or completes an iteration, and a pass is always
\* possible, so that the loop ends after maximumIterations + 1 passes.
C22_SmallLimitRaises ==
    /\ [](SmallLimit =>
            /\ pc \in {"call", "loop", "RuntimeError"}
            /\ returned = Unbound
            /\ pc = "RuntimeError" =>
                 /\ iterations = maximumIterations
                 /\ draws = maximumIterations + 1
                 /\ evals = 2 * maximumIterations
            /\ pc = "loop" =>
                 /\ iterations <= maximumIterations
                 /\ draws = iterations
                 /\ AverageContinue(epsilon, acceptableError, iterations)
                 /\ ENABLED (AverageIterate \/ AverageLimit))
    /\ [][(SmallLimit /\ pc = "loop") =>
            /\ draws' = draws + 1
            /\ \/ pc' = "RuntimeError" /\ iterations' = iterations
               \/ pc' = "loop" /\ iterations' = iterations + 1]_vars

\* C22 witness: with maximumIterations = 1 and a positive acceptableError the
\* one completed iteration left epsilon below acceptableError, and the second
\* pass raised the RuntimeError
C22_Witness ==
    /\ pc = "RuntimeError" /\ SmallLimit
    /\ maximumIterations = 1 /\ iterations = 1 /\ draws = 2
    /\ ~epsilon.inf
    /\ RatLT(SignedSquareOfSurd(epsilon), SignedSquareOfRat(acceptableError))

=============================================================================
